---- MODULE Spec2Model ----
(***************************************************************************)
(* ExSIP.Subscriber / ExSIP.Subscription (SUBSCRIBE/NOTIFY, RFC 6665).     *)
(* One Subscriber, the Subscriptions it creates, the window timers they    *)
(* arm and the SUBSCRIBE transactions they have in flight.  Every handler  *)
(* runs to completion: it is an operator from the program state (a record) *)
(* to the program state, and an action applies one handler.                *)
(***************************************************************************)
EXTENDS Integers, Sequences, FiniteSets, TLC

\* ---- bounds ----
MaxSubs == 2          \* Subscription objects ever constructed
MaxReq == 2           \* application/timer driven SUBSCRIBEs ever sent
MaxExpires == 2       \* the requested expires (seconds)
MaxTx == 1            \* transactions in flight that LiveSpec follows, per Subscription
MaxSockets == 3       \* WebSocket objects one Transport ever constructs

\* ---- program constants ----
InitialCSeq == 80
NoHandle == 0         \* this.N = null
NoExpires == -1       \* header or parameter absent (undefined)
error_codes == {404, 405, 410, 416, 480, 481, 482, 483, 484, 485, 489, 501, 604}
ConfiguredEvent == "message-summary"
NoHeader == "<none>"

Slots == 1..MaxSubs
SUBSCRIBER == 0       \* timer owner tag of the Subscriber; a Subscription's is its slot

\* inputs
StatusCodes == {180, 200, 480, 503}
ExpiresValues == {NoExpires} \cup (0..(MaxExpires + 1))     \* Expires header
ParamValues == {NoExpires, 1, MaxExpires + 1}                \* expires= parameter
\* responses: an Expires header on the 2xx and on one error code
Responses ==
  {r \in [status : StatusCodes, expires : ExpiresValues] :
     r.status \in {200, 480} \/ r.expires = NoExpires}
EventValues == {NoHeader, ConfiguredEvent, "presence"}
StateValues == {NoHeader, "pending", "active", "terminated"}
\* a NOTIFY that fails matchEvent is read no further: one representative each
Notifies ==
  {r \in [event : EventValues, ss : StateValues, expires : ParamValues] :
     \/ r.event = ConfiguredEvent /\ r.ss /= NoHeader
     \/ r.expires = NoExpires /\ r.ss \in {NoHeader, "active"}}

T1x64 == [unit |-> "T1", n |-> 64]
Millis(e) == [unit |-> "ms", n |-> e * 1000]

VARIABLES
  state,           \* Subscriber.state ("idle" stands for undefined)
  N,               \* Subscriber.N (timer handle)
  cseq,            \* Subscriber.cseq
  expires,         \* Subscriber.expires (requested)
  registered,      \* ua.sessions[subscriber.id] is set
  subscriptions,   \* keys of Subscriber.subscriptions
  subs,            \* the Subscription objects, by slot
  timers,          \* armed window timers: [h, owner, dur]
  txInit,          \* transaction of the initial SUBSCRIBE
  sent,            \* cseq of every SUBSCRIBE handed to a RequestSender
  hist,            \* call counters of callbacks and registry removal
  op,              \* the handler that ran last
  trace            \* its side effects, in order

vars == <<state, N, cseq, expires, registered, subscriptions, subs, timers,
          txInit, sent, hist, op, trace>>

\* ExSIP.Transport
VARIABLES
  ws,                     \* Transport.ws: index in socks of the current WebSocket
  socks,                  \* every WebSocket constructed: its readyState
  closed,                 \* Transport.closed
  connected,              \* Transport.connected
  reconnection_attempts,  \* Transport.reconnection_attempts
  reconnectTimer,         \* Transport.reconnectTimer (timer handle)
  wtimers,                \* armed reconnection timers (handles)
  configuration,          \* ua.configuration
  disconnectCalled,       \* disconnect() was called and connect() was not called since
  top,                    \* the Transport handler that ran last
  tlog                    \* its side effects, in order

tvars == <<ws, socks, closed, connected, reconnection_attempts, reconnectTimer,
           wtimers, configuration, disconnectCalled, top, tlog>>

Cur ==
  [state |-> state, N |-> N, cseq |-> cseq, expires |-> expires,
   registered |-> registered, subscriptions |-> subscriptions, subs |-> subs,
   timers |-> timers, txInit |-> txInit, sent |-> sent, hist |-> hist,
   trace |-> <<>>]

\* the handler's result r is computed once and becomes the next state
Set(s, o) ==
  \E r \in {s} :
    /\ state' = r.state
    /\ N' = r.N
    /\ cseq' = r.cseq
    /\ expires' = r.expires
    /\ registered' = r.registered
    /\ subscriptions' = r.subscriptions
    /\ subs' = r.subs
    /\ timers' = r.timers
    /\ txInit' = r.txInit
    /\ sent' = r.sent
    /\ hist' = r.hist
    /\ trace' = r.trace
    /\ op' = o
    /\ UNCHANGED tvars

NoSub ==
  [state |-> "none", expires |-> 0, dialog |-> "none", N |-> NoHandle,
   renewTx |-> 0, unsubTx |-> 0]

Init ==
  /\ state = "idle"
  /\ N = NoHandle
  /\ cseq = InitialCSeq
  /\ expires = MaxExpires
  /\ registered = FALSE
  /\ subscriptions = {}
  /\ subs = [i \in Slots |-> NoSub]
  /\ timers = {}
  /\ txInit = "none"
  /\ sent = <<>>
  /\ hist = [onTerminate |-> 0, sessionsDeleted |-> 0, initialSent |-> 0,
             subTerminate |-> [i \in Slots |-> 0],
             closeUnsub |-> [i \in Slots |-> 0]]
  /\ op = [name |-> "init", i |-> 0]
  /\ trace = <<>>

\* ---- window.setTimeout / window.clearTimeout ----
Log(s, e) == [s EXCEPT !.trace = Append(@, e)]

Truthy(e) == e /= NoExpires /\ e /= 0

\* A handle is known by the object that stored it and a number: each object
\* clears only the handle in its own N, so handles of two owners never meet.
HandleOf(s, owner) == IF owner = SUBSCRIBER THEN s.N ELSE s.subs[owner].N

ClearTimeout(s, owner) ==
  Log([s EXCEPT !.timers = {t \in @ : ~(t.owner = owner /\ t.h = HandleOf(s, owner))}],
      IF owner = SUBSCRIBER THEN "clearTimeout" ELSE "sub.clearTimeout")

\* window.setTimeout returns a handle that no armed timer has
FreshHandle(s, owner) ==
  LET used == {t.h : t \in {u \in s.timers : u.owner = owner}}
      cand == 1..(Cardinality(used) + 1)
  IN CHOOSE h \in cand \ used : \A g \in cand \ used : h <= g

SetTimeout(s, owner, dur) ==
  LET h == FreshHandle(s, owner)
      s1 == [s EXCEPT !.timers = @ \cup {[h |-> h, owner |-> owner, dur |-> dur]}]
  IN IF owner = SUBSCRIBER
       THEN Log([s1 EXCEPT !.N = h], "setTimeout")
       ELSE Log([s1 EXCEPT !.subs[owner].N = h], "sub.setTimeout")

Armed(owner) == {t \in timers : t.owner = owner}

\* mutant: params.cseq = this.cseq, without the increment
createSubscribeRequest_NoIncrement(s) == s

\* ---- Subscriber.createSubscribeRequest ----
createSubscribeRequest(s) == [s EXCEPT !.cseq = @ + 1]

\* request_sender.send()
RequestSend(s) == Log([s EXCEPT !.sent = Append(@, s.cseq)], "send")


Bump(s, k) == [s EXCEPT !.hist[k] = @ + 1]
BumpSub(s, k, i) == [s EXCEPT !.hist[k][i] = @ + 1]

\* mutant: unsubscribe() tears the dialog down before it returns
SubscriptionUnsubscribe_DialogClosed(s, i) ==
  LET s1 == [s EXCEPT !.subs[i].state = "terminated"]
      s2 == createSubscribeRequest(s1)
      s3 == ClearTimeout(s2, i)
      s4 == SetTimeout(s3, i, T1x64)
      s5 == RequestSend(s4)
      s6 == [s5 EXCEPT !.subs[i].unsubTx = @ + 1]
  IN IF s6.subs[i].dialog = "live"
       THEN Log([s6 EXCEPT !.subs[i].dialog = "terminated"], "dialog.terminate")
       ELSE s6

\* ---- ExSIP.Subscription.prototype.unsubscribe ----
SubscriptionUnsubscribe(s, i) ==
  LET s1 == [s EXCEPT !.subs[i].state = "terminated"]
      s2 == createSubscribeRequest(s1)
      s3 == ClearTimeout(s2, i)
      s4 == SetTimeout(s3, i, T1x64)
      s5 == RequestSend(s4)
  IN [s5 EXCEPT !.subs[i].unsubTx = @ + 1]

\* the for-in loop of Subscriber.close over this.subscriptions (insertion order)
RECURSIVE UnsubscribeAll(_, _)
UnsubscribeAll(s, todo) ==
  IF todo = {} THEN s
  ELSE LET i == CHOOSE j \in todo : \A k \in todo : j <= k
       IN UnsubscribeAll(SubscriptionUnsubscribe(BumpSub(s, "closeUnsub", i), i),
                         todo \ {i})

\* mutant: close() without the state !== 'terminated' guard
SubscriberClose_NoGuard(s) ==
  LET s1 == Log([s EXCEPT !.state = "terminated"], "close")
      s2 == ClearTimeout(s1, SUBSCRIBER)
      s3 == UnsubscribeAll(s2, s2.subscriptions)
      s4 == Bump([s3 EXCEPT !.registered = FALSE], "sessionsDeleted")
  IN Log(Bump(s4, "onTerminate"), "onTerminate")

\* ---- ExSIP.Subscriber.prototype.close ----
SubscriberClose(s) ==
  IF s.state /= "terminated"
    THEN LET s1 == Log([s EXCEPT !.state = "terminated"], "close")
             s2 == ClearTimeout(s1, SUBSCRIBER)
             s3 == UnsubscribeAll(s2, s2.subscriptions)
             s4 == Bump([s3 EXCEPT !.registered = FALSE], "sessionsDeleted")
         IN Log(Bump(s4, "onTerminate"), "onTerminate")
    ELSE s

\* mutant: the entry is deleted but an empty map does not close the Subscriber
onSubscriptionTerminate_NoClose(s, i) ==
  BumpSub([s EXCEPT !.subscriptions = @ \ {i}], "subTerminate", i)

\* ---- ExSIP.Subscriber.prototype.onSubscriptionTerminate ----
onSubscriptionTerminate(s, i) ==
  LET s1 == BumpSub([s EXCEPT !.subscriptions = @ \ {i}], "subTerminate", i)
  IN IF s1.subscriptions = {} THEN SubscriberClose(s1) ELSE s1

\* ---- ExSIP.Subscription.prototype.terminateDialog ----
terminateDialog(s, i) ==
  IF s.subs[i].dialog = "live"
    THEN Log([s EXCEPT !.subs[i].dialog = "terminated"], "dialog.terminate")
    ELSE s

\* ---- ExSIP.Subscription.prototype.close ----
SubscriptionClose(s, i) ==
  LET s1 == [s EXCEPT !.subs[i].state = "terminated"]
      s2 == terminateDialog(s1, i)
      s3 == ClearTimeout(s2, i)
  IN onSubscriptionTerminate(s3, i)

\* subscriber.onFailure(response, cause)
onFailure(s, cause) == Log(s, cause)

\* mutant: send arms the 64*T1 watchdog without clearing subscription.N first
SubscriptionSubscribe_NoClear(s, i) ==
  LET s1 == createSubscribeRequest(s)
      s3 == SetTimeout(s1, i, T1x64)
      s4 == RequestSend(s3)
  IN [s4 EXCEPT !.subs[i].renewTx = @ + 1]

\* ---- ExSIP.Subscription.prototype.subscribe: send ----
SubscriptionSubscribe(s, i) ==
  LET s1 == createSubscribeRequest(s)
      s2 == ClearTimeout(s1, i)
      s3 == SetTimeout(s2, i, T1x64)
      s4 == RequestSend(s3)
  IN [s4 EXCEPT !.subs[i].renewTx = @ + 1]

\* mutant: a response in error_codes is reported without close()
SubscriptionReceiveResponse_NoClose(s, i, status, e) ==
  IF status \in error_codes
    THEN onFailure(s, "onFailure:response")
  ELSE IF status \in 100..199 THEN s
  ELSE IF status \in 200..299
    THEN IF Truthy(e) /\ e <= s.subs[i].expires
           THEN SetTimeout(ClearTimeout(s, i), i, Millis(e))
           ELSE LET s1 == SubscriptionClose(s, i)
                IN IF ~Truthy(e)
                     THEN onFailure(s1, "onFailure:EXPIRES_HEADER_MISSING")
                     ELSE onFailure(s1, "onFailure:INVALID_EXPIRES_HEADER")
  ELSE onFailure(SubscriptionClose(s, i), "onFailure:response")

\* ---- ExSIP.Subscription.prototype.subscribe: receiveResponse ----
SubscriptionReceiveResponse(s, i, status, e) ==
  IF status \in error_codes
    THEN onFailure(SubscriptionClose(s, i), "onFailure:response")
  ELSE IF status \in 100..199 THEN s
  ELSE IF status \in 200..299
    THEN IF Truthy(e) /\ e <= s.subs[i].expires
           THEN SetTimeout(ClearTimeout(s, i), i, Millis(e))
           ELSE LET s1 == SubscriptionClose(s, i)
                IN IF ~Truthy(e)
                     THEN onFailure(s1, "onFailure:EXPIRES_HEADER_MISSING")
                     ELSE onFailure(s1, "onFailure:INVALID_EXPIRES_HEADER")
  ELSE onFailure(SubscriptionClose(s, i), "onFailure:response")

\* mutant: timer_N without the 'pending' branch (a pending Subscription renews)
SubscriptionTimerN_PendingRenews(s, i) ==
  IF s.subs[i].state = "terminated" THEN SubscriptionClose(s, i)
  ELSE SubscriptionSubscribe(s, i)

\* ---- ExSIP.Subscription.prototype.timer_N ----
SubscriptionTimerN(s, i) ==
  IF s.subs[i].state = "terminated" THEN SubscriptionClose(s, i)
  ELSE IF s.subs[i].state = "pending"
    THEN SubscriptionClose([s EXCEPT !.subs[i].state = "terminated"], i)
  ELSE SubscriptionSubscribe(s, i)

\* mutant: the event token of the NOTIFY is not compared with this.event
matchEvent_AnyEvent(s, req) ==
  req.event /= NoHeader /\ req.ss /= NoHeader

\* ---- ExSIP.Subscriber.prototype.matchEvent ----
matchEvent(s, req) ==
  req.event /= NoHeader /\ req.ss /= NoHeader /\ req.event = ConfiguredEvent

matchEventReply(s, req) ==
  IF req.event /= NoHeader /\ req.ss /= NoHeader /\ req.event /= ConfiguredEvent
    THEN Log(s, "reply481")
    ELSE s

\* mutant: receiveInfo only when the state was not active before the NOTIFY
SubscriptionReceiveRequest_InfoOnce(s, i, req, initial) ==
  IF ~initial /\ ~matchEvent(s, req) THEN matchEventReply(s, req)
  ELSE LET s1 == Log(s, "reply200")
           s2 == [s1 EXCEPT !.subs[i].expires =
                                IF Truthy(req.expires) THEN req.expires ELSE @]
           s3 == ClearTimeout(s2, i)
       IN CASE req.ss = "active" ->
                 SetTimeout(ClearTimeout(
                   [(IF s.subs[i].state /= "active" THEN Log(s2, "receiveInfo") ELSE s2)
                      EXCEPT !.subs[i].state = "active"], i),
                   i, Millis(s2.subs[i].expires))
            [] req.ss = "pending" -> SetTimeout(s3, i, Millis(s3.subs[i].expires))
            [] req.ss = "terminated" -> Log(SubscriptionClose(s1, i), "receiveInfo")
            [] OTHER -> s1

\* ---- ExSIP.Subscription.prototype.receiveRequest ----
Rearm(s, i, req) ==
  LET s1 == [s EXCEPT !.subs[i].expires = IF Truthy(req.expires) THEN req.expires ELSE @]
      s2 == ClearTimeout(s1, i)
  IN SetTimeout(s2, i, Millis(s2.subs[i].expires))

SubscriptionReceiveRequest(s, i, req, initial) ==
  IF ~initial /\ ~matchEvent(s, req) THEN matchEventReply(s, req)
  ELSE LET s1 == Log(s, "reply200")
       IN CASE req.ss = "active" ->
                 Rearm(Log([s1 EXCEPT !.subs[i].state = "active"], "receiveInfo"), i, req)
            [] req.ss = "pending" -> Rearm(s1, i, req)
            [] req.ss = "terminated" -> Log(SubscriptionClose(s1, i), "receiveInfo")
            [] OTHER -> s1

\* ---- ExSIP.Subscription (constructor) ----
NextSlot(s) == CHOOSE i \in Slots : s.subs[i].state = "none" /\
                  \A j \in Slots : s.subs[j].state = "none" => i <= j

NewSubscription(s, req, st, e) ==
  LET i == NextSlot(s)
      s1 == [s EXCEPT !.subs[i] = [NoSub EXCEPT !.state = st, !.expires = e,
                                                !.dialog = "live"],
                      !.subscriptions = @ \cup {i}]
  IN SubscriptionReceiveRequest(Log(s1, "new Subscription"), i, req, TRUE)

\* ---- ExSIP.Subscriber.prototype.receiveRequest ----
SubscriberReceiveRequest(s, req) ==
  IF ~matchEvent(s, req) THEN matchEventReply(s, req)
  ELSE LET e == IF Truthy(req.expires) THEN req.expires ELSE s.expires
       IN CASE req.ss \in {"pending", "active"} ->
                 NewSubscription(ClearTimeout(s, SUBSCRIBER), req, req.ss, e)
            [] req.ss = "terminated" -> SubscriberClose(ClearTimeout(s, SUBSCRIBER))
            [] OTHER -> s

\* mutant: the guard list lacks 'terminated'
SubscriberSubscribe_WeakGuard(s) ==
  IF s.state \in {"notify_wait", "pending", "active"}
    THEN Log(s, "console.error")
    ELSE LET s1 == createSubscribeRequest(s)
             s2 == [s1 EXCEPT !.registered = TRUE, !.state = "notify_wait"]
             s3 == SetTimeout(s2, SUBSCRIBER, T1x64)
             s4 == RequestSend(s3)
         IN Bump([s4 EXCEPT !.txInit = "live"], "initialSent")

\* ---- ExSIP.Subscriber.prototype.subscribe ----
SubscriberSubscribe(s) ==
  IF s.state \in {"notify_wait", "pending", "active", "terminated"}
    THEN Log(s, "console.error")
    ELSE LET s1 == createSubscribeRequest(s)
             s2 == [s1 EXCEPT !.registered = TRUE, !.state = "notify_wait"]
             s3 == SetTimeout(s2, SUBSCRIBER, T1x64)
             s4 == RequestSend(s3)
         IN Bump([s4 EXCEPT !.txInit = "live"], "initialSent")

\* mutant: the 2xx arms the new watchdog without clearing subscriber.N
SubscriberReceiveResponse_NoClear(s, status, e) ==
  IF status \in 100..199 THEN s
  ELSE IF status \in 200..299
    THEN IF Truthy(e) /\ e <= s.expires
           THEN SetTimeout(s, SUBSCRIBER, Millis(e))
           ELSE LET s1 == SubscriberClose(s)
                IN IF ~Truthy(e)
                     THEN onFailure(s1, "onFailure:EXPIRES_HEADER_MISSING")
                     ELSE onFailure(s1, "onFailure:INVALID_EXPIRES_HEADER")
  ELSE onFailure(SubscriberClose(s), "onFailure:response")

\* mutant: the 2xx arms the watchdog for the requested expires
SubscriberReceiveResponse_Requested(s, status, e) ==
  IF status \in 100..199 THEN s
  ELSE IF status \in 200..299
    THEN IF Truthy(e) /\ e <= s.expires
           THEN SetTimeout(ClearTimeout(s, SUBSCRIBER), SUBSCRIBER, Millis(s.expires))
           ELSE LET s1 == SubscriberClose(s)
                IN IF ~Truthy(e)
                     THEN onFailure(s1, "onFailure:EXPIRES_HEADER_MISSING")
                     ELSE onFailure(s1, "onFailure:INVALID_EXPIRES_HEADER")
  ELSE onFailure(SubscriberClose(s), "onFailure:response")

\* mutant: an invalid Expires is reported without close()
SubscriberReceiveResponse_NoClose(s, status, e) ==
  IF status \in 100..199 THEN s
  ELSE IF status \in 200..299
    THEN IF Truthy(e) /\ e <= s.expires
           THEN SetTimeout(ClearTimeout(s, SUBSCRIBER), SUBSCRIBER, Millis(e))
           ELSE IF ~Truthy(e)
                  THEN onFailure(s, "onFailure:EXPIRES_HEADER_MISSING")
                  ELSE onFailure(s, "onFailure:INVALID_EXPIRES_HEADER")
  ELSE onFailure(SubscriberClose(s), "onFailure:response")

\* ---- ExSIP.Subscriber.prototype.subscribe: receiveResponse ----
SubscriberReceiveResponse(s, status, e) ==
  IF status \in 100..199 THEN s
  ELSE IF status \in 200..299
    THEN IF Truthy(e) /\ e <= s.expires
           THEN SetTimeout(ClearTimeout(s, SUBSCRIBER), SUBSCRIBER, Millis(e))
           ELSE LET s1 == SubscriberClose(s)
                IN IF ~Truthy(e)
                     THEN onFailure(s1, "onFailure:EXPIRES_HEADER_MISSING")
                     ELSE onFailure(s1, "onFailure:INVALID_EXPIRES_HEADER")
  ELSE onFailure(SubscriberClose(s), "onFailure:response")

\* ---- ExSIP.Subscriber.prototype.refresh ----
RECURSIVE SubscribeAll(_, _)
SubscribeAll(s, todo) ==
  IF todo = {} THEN s
  ELSE LET i == CHOOSE j \in todo : \A k \in todo : j <= k
       IN SubscribeAll(SubscriptionSubscribe(s, i), todo \ {i})

SubscriberRefresh(s) == SubscribeAll(s, s.subscriptions)

\* ---- ExSIP.Subscriber.prototype.timer_N ----
SubscriberTimerN(s) == SubscriberClose(s)

\* a final response, a timeout or a transport error ends a transaction
IsFinal(status) == status >= 200
EndInit(s, final) == IF final THEN [s EXCEPT !.txInit = "done"] ELSE s
EndRenew(s, i, final) == IF final THEN [s EXCEPT !.subs[i].renewTx = @ - 1] ELSE s
EndUnsub(s, i, final) == IF final THEN [s EXCEPT !.subs[i].unsubTx = @ - 1] ELSE s

Op(name, i) == [name |-> name, i |-> i]
\* a handler that sends a renewal or an application's unsubscribe runs only
\* while fewer than MaxReq requests were sent
Budget(s) == Len(s.sent) = Len(sent) \/ Len(s.sent) <= MaxReq

\* ================= actions =================
\* application API
DoSubscribe == Set(SubscriberSubscribe(Cur), Op("Subscriber.subscribe", 0))

DoTerminate == Set(SubscriberClose(Cur), Op("Subscriber.terminate", 0))

DoRefresh ==
  LET r == SubscriberRefresh(Cur)
  IN /\ Budget(r)
     /\ Set(r, Op("Subscriber.refresh", 0))

DoSubscriptionUnsubscribe ==
  \E i \in Slots :
    /\ subs[i].state /= "none"
    /\ LET r == SubscriptionUnsubscribe(Cur, i)
       IN Budget(r) /\ Set(r, Op("Subscription.unsubscribe", i))

\* transaction layer, initial SUBSCRIBE
InitialResponse ==
  \E r \in Responses :
    /\ txInit = "live"
    /\ Set(SubscriberReceiveResponse(EndInit(Cur, IsFinal(r.status)), r.status, r.expires),
           [name |-> "Subscriber.receiveResponse", i |-> 0, rsp |-> r])

InitialTimeout ==
  /\ txInit = "live"
  /\ Set(onFailure(EndInit(Cur, TRUE), "onFailure:REQUEST_TIMEOUT"),
         Op("Subscriber.onRequestTimeout", 0))

InitialTransportError ==
  /\ txInit = "live"
  /\ Set(onFailure(EndInit(Cur, TRUE), "onFailure:CONNECTION_ERROR"),
         Op("Subscriber.onTransportError", 0))

\* transaction layer, renewal SUBSCRIBE of a Subscription
RenewalResponse ==
  \E i \in Slots, r \in Responses :
    /\ subs[i].renewTx > 0
    /\ Set(SubscriptionReceiveResponse(EndRenew(Cur, i, IsFinal(r.status)), i,
                                       r.status, r.expires),
           [name |-> "Subscription.receiveResponse", i |-> i, rsp |-> r])

RenewalTimeout ==
  \E i \in Slots :
    /\ subs[i].renewTx > 0
    /\ Set(onFailure(EndRenew(Cur, i, TRUE), "onFailure:REQUEST_TIMEOUT"),
           Op("Subscription.onRequestTimeout", i))

RenewalTransportError ==
  \E i \in Slots :
    /\ subs[i].renewTx > 0
    /\ Set(onFailure(EndRenew(Cur, i, TRUE), "onFailure:CONNECTION_ERROR"),
           Op("Subscription.onTransportError", i))

\* transaction layer, SUBSCRIBE with Expires: 0
UnsubscribeResponse ==
  \E i \in Slots, status \in StatusCodes :
    /\ subs[i].unsubTx > 0
    /\ Set(EndUnsub(Cur, i, IsFinal(status)), Op("unsubscribe.receiveResponse", i))

UnsubscribeTimeout ==
  \E i \in Slots :
    /\ subs[i].unsubTx > 0
    /\ Set(onFailure(EndUnsub(Cur, i, TRUE), "onFailure:REQUEST_TIMEOUT"),
           Op("unsubscribe.onRequestTimeout", i))

UnsubscribeTransportError ==
  \E i \in Slots :
    /\ subs[i].unsubTx > 0
    /\ Set(onFailure(EndUnsub(Cur, i, TRUE), "onFailure:CONNECTION_ERROR"),
           Op("unsubscribe.onTransportError", i))

\* window timers
Fire(s, t) == [s EXCEPT !.timers = @ \ {t}]

SubscriberTimerFires ==
  \E t \in timers :
    /\ t.owner = SUBSCRIBER
    /\ Set(SubscriberTimerN(Fire(Cur, t)), Op("Subscriber.timer_N", 0))

SubscriptionTimerFires ==
  \E t \in timers :
    /\ t.owner /= SUBSCRIBER
    /\ LET r == SubscriptionTimerN(Fire(Cur, t), t.owner)
       IN Budget(r) /\ Set(r, Op("Subscription.timer_N", t.owner))

\* inbound NOTIFY, routed by ua.sessions (no dialog yet) or by its dialog
NotifyToSubscriber ==
  \E req \in Notifies :
    /\ registered
    /\ (matchEvent(Cur, req) /\ req.ss \in {"pending", "active"})
         => \E i \in Slots : subs[i].state = "none"
    /\ Set(SubscriberReceiveRequest(Cur, req),
           [name |-> "Subscriber.receiveRequest", i |-> 0, req |-> req])

NotifyToSubscription ==
  \E i \in Slots, req \in Notifies :
    /\ subs[i].dialog = "live"
    /\ Set(SubscriptionReceiveRequest(Cur, i, req, FALSE),
           [name |-> "Subscription.receiveRequest", i |-> i, req |-> req,
            was |-> subs[i].state])

Next ==
  \/ DoSubscribe
  \/ DoTerminate
  \/ DoRefresh
  \/ DoSubscriptionUnsubscribe
  \/ InitialResponse
  \/ InitialTimeout
  \/ InitialTransportError
  \/ RenewalResponse
  \/ RenewalTimeout
  \/ RenewalTransportError
  \/ UnsubscribeResponse
  \/ UnsubscribeTimeout
  \/ UnsubscribeTransportError
  \/ SubscriberTimerFires
  \/ SubscriptionTimerFires
  \/ NotifyToSubscriber
  \/ NotifyToSubscription

\* ================= ExSIP.Transport =================
Configurations ==
  [ws_server_max_reconnection : {0, 1}, ws_server_reconnection_timeout : {0, 1}]

TCur ==
  [ws |-> ws, socks |-> socks, closed |-> closed, connected |-> connected,
   reconnection_attempts |-> reconnection_attempts,
   reconnectTimer |-> reconnectTimer, wtimers |-> wtimers,
   configuration |-> configuration, disconnectCalled |-> disconnectCalled,
   tlog |-> <<>>]

TSet(s, o) ==
  \E r \in {s} :
    /\ ws' = r.ws
    /\ socks' = r.socks
    /\ closed' = r.closed
    /\ connected' = r.connected
    /\ reconnection_attempts' = r.reconnection_attempts
    /\ reconnectTimer' = r.reconnectTimer
    /\ wtimers' = r.wtimers
    /\ configuration' = r.configuration
    /\ disconnectCalled' = r.disconnectCalled
    /\ tlog' = r.tlog
    /\ top' = o
    /\ UNCHANGED vars

TLog(s, e) == [s EXCEPT !.tlog = Append(@, e)]

\* ---- Transport.prototype.readyState ----
readyState(s) == s.socks[s.ws].rs

\* WebSocket.close(): a socket that is connecting or open starts to close
WsClose(s, k) ==
  TLog(IF s.socks[k].rs \in {"CONNECTING", "OPEN"}
         THEN [s EXCEPT !.socks[k].rs = "CLOSING"]
         ELSE s,
       "ws.close")

\* ---- Transport.prototype.connect ----
TransportConnect(s) ==
  LET s0 == TLog(s, "connect")
  IN IF s0.ws /= 0 /\ readyState(s0) \in {"OPEN", "CONNECTING"}
       THEN s0
       ELSE LET s1 == IF s0.ws /= 0 THEN WsClose(s0, s0.ws) ELSE s0
            IN TLog([s1 EXCEPT !.socks = Append(@, [rs |-> "CONNECTING"]),
                               !.ws = Len(s1.socks) + 1],
                    "new WebSocket")

\* ---- Transport (constructor) ----
TransportInit(c) ==
  /\ ws = 1
  /\ socks = <<[rs |-> "CONNECTING"]>>
  /\ closed = FALSE
  /\ connected = FALSE
  /\ reconnection_attempts = 0
  /\ reconnectTimer = NoHandle
  /\ wtimers = {}
  /\ configuration = c
  /\ disconnectCalled = FALSE
  /\ top = [name |-> "Transport"]
  /\ tlog = <<"connect", "new WebSocket">>

\* ---- Transport.prototype.disconnect ----
TransportDisconnect(s) ==
  IF s.ws /= 0 THEN WsClose([s EXCEPT !.closed = TRUE], s.ws) ELSE s

\* ---- Transport.prototype.onOpen ----
TransportOnOpen(s) ==
  LET s1 == [s EXCEPT !.connected = TRUE]
      s2 == TLog([s1 EXCEPT !.wtimers = @ \ {s1.reconnectTimer}], "clearTimeout")
      s3 == [s2 EXCEPT !.closed = FALSE]
  IN TLog(s3, "ua.onTransportConnected")

\* ---- Transport.prototype.reConnect ----
TransportReConnect(s) ==
  LET s1 == TLog([s EXCEPT !.reconnection_attempts = @ + 1], "reConnect")
  IN IF s1.reconnection_attempts > s1.configuration.ws_server_max_reconnection
       THEN TLog(s1, "ua.onTransportError")
     ELSE IF s1.configuration.ws_server_reconnection_timeout = 0
       THEN TransportConnect(s1)
     ELSE LET h == CHOOSE g \in 1..(Cardinality(s1.wtimers) + 1) : g \notin s1.wtimers
          IN TLog([s1 EXCEPT !.reconnectTimer = h, !.wtimers = @ \cup {h}],
                  "setTimeout")

\* ---- Transport.prototype.onClose ----
TransportOnClose(s) ==
  LET s1 == [s EXCEPT !.connected = FALSE]
  IN IF s.connected
       THEN LET s2 == TLog(s1, "ua.onTransportClosed")
            IN IF ~s2.closed
                 THEN TransportReConnect(
                        TLog([s2 EXCEPT !.reconnection_attempts = 0], "reset"))
                 ELSE TLog(s2, "emit:disconnected")
       ELSE TLog(s1, "ua.onTransportError")

\* a handler that constructs a WebSocket runs while fewer than MaxSockets exist
Sockets(s) == Len(s.socks) = Len(socks) \/ Len(s.socks) <= MaxSockets

\* the user (the UA on the user's behalf)
UserDisconnect ==
  TSet([TransportDisconnect(TCur) EXCEPT !.disconnectCalled = TRUE],
       [name |-> "disconnect"])

UserConnect ==
  LET r == TransportConnect(TCur)
  IN /\ Sockets(r)
     /\ TSet([r EXCEPT !.disconnectCalled = FALSE], [name |-> "connect"])

\* events of a WebSocket: ws.onopen, ws.onclose
SocketOpens ==
  \E k \in 1..Len(socks) :
    /\ socks[k].rs = "CONNECTING"
    /\ TSet(TransportOnOpen([TCur EXCEPT !.socks[k].rs = "OPEN"]),
            [name |-> "onOpen", k |-> k])

SocketCloses ==
  \E k \in 1..Len(socks), wasClean \in BOOLEAN :
    /\ socks[k].rs /= "CLOSED"
    /\ LET r == TransportOnClose([TCur EXCEPT !.socks[k].rs = "CLOSED"])
       IN /\ Sockets(r)
          /\ TSet(r, [name |-> "onClose", k |-> k, wasClean |-> wasClean])

\* the callback of window.setTimeout in reConnect
ReconnectTimerFires ==
  \E h \in wtimers :
    LET r == TransportConnect([TCur EXCEPT !.wtimers = @ \ {h}])
    IN /\ Sockets(r)
       /\ TSet(r, [name |-> "reconnectTimer", h |-> h])

TransportNext ==
  \/ UserDisconnect
  \/ UserConnect
  \/ SocketOpens
  \/ SocketCloses
  \/ ReconnectTimerFires

TransportStart == Init /\ \E c \in Configurations : TransportInit(c)

TransportSpec == TransportStart /\ [][TransportNext]_<<vars, tvars>>

\* the Subscriber runs beside a Transport that is left alone
DefaultConfiguration ==
  [ws_server_max_reconnection |-> 1, ws_server_reconnection_timeout |-> 1]

Start == Init /\ TransportInit(DefaultConfiguration)

Spec == Start /\ [][Next]_<<vars, tvars>>


\* ================= the same handlers, run without end =================
\* LiveSpec runs every handler of Spec with no bound on the number of
\* requests.  What only grows and is read by no handler is not kept: the log of
\* sent requests, cseq, the per-handler trace and the count of
\* onSubscriptionTerminate calls.  Of the transactions in flight of one
\* Subscription, at most MaxTx are followed; the others never complete.
Min(a, b) == IF a <= b THEN a ELSE b

Forget(s) ==
  [s EXCEPT !.sent = <<>>,
            !.cseq = InitialCSeq,
            !.trace = <<>>,
            !.hist.subTerminate = [i \in Slots |-> 0],
            !.subs = [i \in Slots |->
                        [s.subs[i] EXCEPT !.renewTx = Min(@, MaxTx),
                                          !.unsubTx = Min(@, MaxTx)]]]

\* op tells a call of the application ("api") from an event delivered to it
LiveStep(s, kind) == Set(Forget(s), Op(kind, 0))

LiveSubscribe == LiveStep(SubscriberSubscribe(Cur), "api")

LiveTerminate == LiveStep(SubscriberClose(Cur), "api")

LiveRefresh == LiveStep(SubscriberRefresh(Cur), "api")

LiveSubscriptionUnsubscribe ==
  \E i \in Slots :
    /\ subs[i].state /= "none"
    /\ LiveStep(SubscriptionUnsubscribe(Cur, i), "api")

LiveInitialResponse ==
  \E r \in Responses :
    /\ txInit = "live"
    /\ LiveStep(SubscriberReceiveResponse(EndInit(Cur, IsFinal(r.status)),
                                          r.status, r.expires), "event")

LiveInitialFailure ==
  \E cause \in {"onFailure:REQUEST_TIMEOUT", "onFailure:CONNECTION_ERROR"} :
    /\ txInit = "live"
    /\ LiveStep(onFailure(EndInit(Cur, TRUE), cause), "event")

LiveRenewalResponse ==
  \E i \in Slots, r \in Responses :
    /\ subs[i].renewTx > 0
    /\ LiveStep(SubscriptionReceiveResponse(EndRenew(Cur, i, IsFinal(r.status)), i,
                                            r.status, r.expires), "event")

LiveRenewalFailure ==
  \E i \in Slots, cause \in {"onFailure:REQUEST_TIMEOUT", "onFailure:CONNECTION_ERROR"} :
    /\ subs[i].renewTx > 0
    /\ LiveStep(onFailure(EndRenew(Cur, i, TRUE), cause), "event")

LiveUnsubscribeEnds ==
  \E i \in Slots :
    /\ subs[i].unsubTx > 0
    /\ LiveStep(EndUnsub(Cur, i, TRUE), "event")

LiveSubscriberTimerFires ==
  \E t \in timers :
    /\ t.owner = SUBSCRIBER
    /\ LiveStep(SubscriberTimerN(Fire(Cur, t)), "event")

LiveSubscriptionTimerFires(i) ==
  \E t \in timers :
    /\ t.owner = i
    /\ LiveStep(SubscriptionTimerN(Fire(Cur, t), i), "event")

LiveNotifyToSubscriber ==
  \E req \in Notifies :
    /\ registered
    /\ (matchEvent(Cur, req) /\ req.ss \in {"pending", "active"})
         => \E i \in Slots : subs[i].state = "none"
    /\ LiveStep(SubscriberReceiveRequest(Cur, req), "event")

LiveNotifyToSubscription ==
  \E i \in Slots, req \in Notifies :
    /\ subs[i].dialog = "live"
    /\ LiveStep(SubscriptionReceiveRequest(Cur, i, req, FALSE), "event")

LiveNext ==
  \/ LiveSubscribe
  \/ LiveTerminate
  \/ LiveRefresh
  \/ LiveSubscriptionUnsubscribe
  \/ LiveInitialResponse
  \/ LiveInitialFailure
  \/ LiveRenewalResponse
  \/ LiveRenewalFailure
  \/ LiveUnsubscribeEnds
  \/ LiveSubscriberTimerFires
  \/ \E i \in Slots : LiveSubscriptionTimerFires(i)
  \/ LiveNotifyToSubscriber
  \/ LiveNotifyToSubscription

\* window timers that stay armed fire
LiveSpec ==
  /\ Start
  /\ [][LiveNext]_<<vars, tvars>>
  /\ WF_vars(LiveSubscriberTimerFires)
  /\ \A i \in Slots : WF_vars(LiveSubscriptionTimerFires(i))

\* ================= properties =================
FailureTokens ==
  {"onFailure:response", "onFailure:EXPIRES_HEADER_MISSING",
   "onFailure:INVALID_EXPIRES_HEADER", "onFailure:REQUEST_TIMEOUT",
   "onFailure:CONNECTION_ERROR"}
Reported(tr) == {k \in 1..Len(tr) : tr[k] \in FailureTokens}
Has(tr, e) == \E k \in 1..Len(tr) : tr[k] = e
Created == {i \in Slots : subs[i].state /= "none"}
Is2xx(o) == o.rsp.status \in 200..299

\* C1: every Subscription has at most one armed watchdog timer, in every
\* reachable state.
C1_OneTimerPerSubscription ==
  \A i \in Slots : Cardinality(Armed(i)) <= 1

\* a renewal 2xx has just re-armed the watchdog that the renewal's send armed
C1_Witness ==
  /\ op.name = "Subscription.receiveResponse"
  /\ Is2xx(op)
  /\ \E t \in Armed(op.i) : t.dur = Millis(op.rsp.expires)
  /\ subs[op.i].state = "active"

\* C2: the Subscriber has at most one armed watchdog timer in every reachable
\* state, and a step that arms Subscriber.N leaves no earlier Subscriber timer
\* armed.
C2_OneTimerPerSubscriber ==
  /\ [](Cardinality(Armed(SUBSCRIBER)) <= 1)
  /\ [][(op'.name \in {"Subscriber.subscribe", "Subscriber.receiveResponse"}
           /\ Has(trace', "setTimeout"))
        => \E t \in Armed(SUBSCRIBER)' :
             /\ Armed(SUBSCRIBER)' = {t}
             /\ t.h = N'
             /\ t.dur /= T1x64 => Armed(SUBSCRIBER) \cap Armed(SUBSCRIBER)' = {}]_vars

\* the 2xx found the 64*T1 watchdog armed and replaced it
C2_Witness ==
  /\ op.name = "Subscriber.receiveResponse"
  /\ state = "notify_wait"
  /\ \E t \in Armed(SUBSCRIBER) : t.dur = Millis(1)

\* C3: onSubscriptionTerminate is invoked at most once for each Subscription,
\* however many times close() runs on it.
C3_CloseOnce ==
  \A i \in Slots : hist.subTerminate[i] <= 1

\* C4: Subscriber.close() acts once: onTerminate is invoked at most once,
\* ua.sessions[id] is deleted at most once and the Subscriber invokes each
\* child's unsubscribe() at most once.
C4_SubscriberCloseOnce ==
  /\ hist.onTerminate <= 1
  /\ hist.sessionsDeleted <= 1
  /\ \A i \in Slots : hist.closeUnsub[i] <= 1

\* terminate() on a Subscriber that close() already terminated, children included
C4_Witness ==
  /\ op.name = "Subscriber.terminate"
  /\ trace = <<>>
  /\ hist.onTerminate = 1
  /\ \E i \in Slots : hist.closeUnsub[i] = 1

\* C5: the cseq values of the SUBSCRIBE requests of one Subscriber, in the order
\* they are sent, strictly increase.
C5_CSeqIncreases ==
  \A j, k \in 1..Len(sent) : j < k => sent[j] < sent[k]

\* the initial SUBSCRIBE, a renewal and an unsubscribe of the same Subscriber
C5_Witness ==
  /\ Len(sent) >= 3
  /\ \E i \in Slots : subs[i].renewTx > 0 /\ subs[i].unsubTx > 0

\* C6: once a Subscription was created, an empty subscriptions map means the
\* Subscriber is terminated; in particular when onSubscriptionTerminate has just
\* removed the last entry.
C6_EmptyMapTerminated ==
  (Created /= {} /\ subscriptions = {}) => state = "terminated"

\* a NOTIFY terminated closed the last Subscription
C6_Witness ==
  /\ op.name = "Subscription.receiveRequest"
  /\ op.req.ss = "terminated"
  /\ subscriptions = {}
  /\ hist.subTerminate[op.i] = 1
  /\ Has(trace, "onTerminate")

\* C7: subscribe() in state notify_wait, pending, active or terminated changes
\* nothing (no request, same cseq, state, registry entry, timers), and at most
\* one initial SUBSCRIBE is ever sent.
C7_SubscribeGuard ==
  /\ [](hist.initialSent <= 1)
  /\ [][(op'.name = "Subscriber.subscribe"
           /\ state \in {"notify_wait", "pending", "active", "terminated"})
        => UNCHANGED <<state, N, cseq, registered, subscriptions, subs, timers,
                       txInit, sent, hist>>]_vars

\* a second subscribe() was refused
C7_Witness ==
  /\ op.name = "Subscriber.subscribe"
  /\ trace = <<"console.error">>
  /\ hist.initialSent = 1

\* C8: a 2xx to the initial SUBSCRIBE with 0 < Expires <= requested leaves
\* exactly one Subscriber watchdog armed, for Expires*1000 ms, cancels the one
\* armed before, and does not change the Subscriber's state (notify_wait stays
\* notify_wait).
C8_GrantedExpiresArmed ==
  [][(op'.name = "Subscriber.receiveResponse" /\ Is2xx(op')
        /\ 0 < op'.rsp.expires /\ op'.rsp.expires <= expires)
     => /\ \E t \in Armed(SUBSCRIBER)' :
             /\ Armed(SUBSCRIBER)' = {t}
             /\ t.dur = Millis(op'.rsp.expires)
             /\ t.h = N'
        /\ \A t \in Armed(SUBSCRIBER) : t.dur = T1x64 /\ t \notin Armed(SUBSCRIBER)'
        /\ state' = state
        /\ trace' = <<"clearTimeout", "setTimeout">>]_vars

\* granted 1 s where MaxExpires s were requested
C8_Witness ==
  /\ op.name = "Subscriber.receiveResponse"
  /\ Is2xx(op)
  /\ op.rsp.expires = 1
  /\ expires > 1
  /\ state = "notify_wait"
  /\ \E t \in Armed(SUBSCRIBER) : t.dur = Millis(1)

\* C9: a 2xx to the initial SUBSCRIBE without Expires, or with Expires greater
\* than requested, leaves the Subscriber terminated, its watchdog cancelled and
\* its registry entry removed, and reports exactly one failure, after close():
\* EXPIRES_HEADER_MISSING when missing, INVALID_EXPIRES_HEADER when greater.
C9_InvalidExpiresCloses ==
  (op.name = "Subscriber.receiveResponse" /\ Is2xx(op)
     /\ (op.rsp.expires = NoExpires \/ op.rsp.expires > expires))
  => /\ state = "terminated"
     /\ Armed(SUBSCRIBER) = {}
     /\ ~registered
     /\ Reported(trace) = {Len(trace)}
     /\ trace[Len(trace)] = IF op.rsp.expires = NoExpires
                              THEN "onFailure:EXPIRES_HEADER_MISSING"
                              ELSE "onFailure:INVALID_EXPIRES_HEADER"

\* Expires greater than requested closed a waiting Subscriber
C9_Witness ==
  /\ op.name = "Subscriber.receiveResponse"
  /\ Is2xx(op)
  /\ op.rsp.expires > expires
  /\ Has(trace, "close")
  /\ trace[Len(trace)] = "onFailure:INVALID_EXPIRES_HEADER"

\* C10: the timeout and transport-error handlers of a SUBSCRIBE leave the
\* entity terminated: the Subscriber for the initial SUBSCRIBE, the
\* Subscription for a renewal.
C10_TimeoutTerminates ==
  /\ op.name \in {"Subscriber.onRequestTimeout", "Subscriber.onTransportError"}
       => state = "terminated"
  /\ op.name \in {"Subscription.onRequestTimeout", "Subscription.onTransportError"}
       => subs[op.i].state = "terminated"

\* an inbound NOTIFY and what matchEvent has to reject, read off the request
IsNotify(o) == o.name \in {"Subscriber.receiveRequest", "Subscription.receiveRequest"}
Mismatch(req) ==
  req.event /= NoHeader /\ req.ss /= NoHeader /\ req.event /= ConfiguredEvent
Rejected(req) == req.event = NoHeader \/ req.ss = NoHeader \/ Mismatch(req)
Accepted(req) == ~Rejected(req)
Count(tr, e) == Cardinality({k \in 1..Len(tr) : tr[k] = e})
OwnedBy(tm, owner) == {t \in tm : t.owner = owner}

\* C11: a NOTIFY terminated delivered to a pending or active Subscription is
\* answered 200 and leaves it terminated, its dialog terminated, its watchdog
\* cancelled and its entry gone from the map; the Subscriber is terminated
\* afterwards exactly when the map is empty.
C11_NotifyTerminated ==
  [][(op'.name = "Subscription.receiveRequest" /\ Accepted(op'.req)
        /\ op'.req.ss = "terminated"
        /\ subs[op'.i].state \in {"pending", "active"})
     => /\ Count(trace', "reply200") = 1
        /\ subs'[op'.i].state = "terminated"
        /\ subs'[op'.i].dialog = "terminated"
        /\ OwnedBy(timers', op'.i) = {}
        /\ op'.i \notin subscriptions'
        /\ (state' = "terminated") <=> (subscriptions' = {})]_vars

\* C12: a NOTIFY that fails event matching changes nothing: no Subscription is
\* created, Subscriber and Subscription state, the map, dialogs and timers are
\* as before; the only reply is 481, sent when both headers are there and the
\* event token differs, and no 200 is sent.
C12_EventMatchFailed ==
  [][(IsNotify(op') /\ Rejected(op'.req))
     => /\ UNCHANGED <<state, N, cseq, registered, subscriptions, subs, timers,
                       txInit, sent, hist>>
        /\ trace' = IF Mismatch(op'.req) THEN <<"reply481">> ELSE <<>>]_vars

\* a NOTIFY for another event package reached an active Subscription
C12_Witness ==
  /\ op.name = "Subscription.receiveRequest"
  /\ op.req.event = "presence"
  /\ trace = <<"reply481">>
  /\ subs[op.i].state = "active"
  /\ Armed(op.i) /= {}

\* C13: after a renewal response whose status is in error_codes the Subscription
\* is terminated, its dialog is not live, its watchdog is cancelled, it is out of
\* the map and one failure carrying the response is reported, whatever Expires
\* the response has and whatever state the Subscription was in.
C13_ErrorCodeTerminates ==
  (op.name = "Subscription.receiveResponse" /\ op.rsp.status \in error_codes)
  => /\ subs[op.i].state = "terminated"
     /\ subs[op.i].dialog /= "live"
     /\ Armed(op.i) = {}
     /\ op.i \notin subscriptions
     /\ Reported(trace) = {Len(trace)}
     /\ trace[Len(trace)] = "onFailure:response"

\* a 480 with an acceptable Expires closed a Subscription that had a sibling
C13_Witness ==
  /\ op.name = "Subscription.receiveResponse"
  /\ op.rsp.status = 480
  /\ op.rsp.expires = 1
  /\ Has(trace, "dialog.terminate")
  /\ subscriptions /= {}
  /\ state /= "terminated"

\* C14: the handler of a NOTIFY that passes event matching sends exactly one
\* 200, and sends it before anything else it does.
C14_ReplyFirst ==
  (IsNotify(op) /\ Accepted(op.req))
  => /\ Count(trace, "reply200") = 1
     /\ trace[1] = "reply200"

\* C15: no expires-based watchdog of a Subscription is armed for longer than
\* the locally requested expires.
C15_WatchdogWithinRequested ==
  \A t \in timers :
    (t.owner /= SUBSCRIBER /\ t.dur.unit = "ms") => t.dur.n <= expires * 1000

\* C16 (as claimed): an accepted NOTIFY active delivers the body to the
\* application exactly when the Subscription was not active before.
C16_InfoOnlyOnChange ==
  [][(op'.name = "Subscription.receiveRequest" /\ Accepted(op'.req)
        /\ op'.req.ss = "active")
     => /\ subs'[op'.i].state = "active"
        /\ Has(trace', "receiveInfo") <=> (subs[op'.i].state /= "active")]_vars

\* C16 (amended): an accepted NOTIFY active leaves the Subscription active,
\* delivers the body to the application once, whatever the state was before,
\* and re-arms the one watchdog for the Subscription's expires.
C16_InfoOnEveryActive ==
  [][(op'.name = "Subscription.receiveRequest" /\ Accepted(op'.req)
        /\ op'.req.ss = "active")
     => /\ subs'[op'.i].state = "active"
        /\ Count(trace', "receiveInfo") = 1
        /\ \E t \in timers' :
             /\ OwnedBy(timers', op'.i) = {t}
             /\ t.dur = Millis(subs'[op'.i].expires)
             /\ t.h = subs'[op'.i].N]_vars

\* a NOTIFY active on a Subscription that was active already delivered its body
C16_Witness ==
  /\ op.name = "Subscription.receiveRequest"
  /\ op.req.ss = "active"
  /\ Accepted(op.req)
  /\ op.was = "active"
  /\ trace = <<"reply200", "receiveInfo", "sub.clearTimeout", "sub.setTimeout">>

\* C17: an accepted NOTIFY pending on a pending or active Subscription leaves
\* it pending, with its watchdog re-armed for its expires.
C17_NotifyPending ==
  [][(op'.name = "Subscription.receiveRequest" /\ Accepted(op'.req)
        /\ op'.req.ss = "pending"
        /\ subs[op'.i].state \in {"pending", "active"})
     => /\ subs'[op'.i].state = "pending"
        /\ \E t \in timers' :
             /\ OwnedBy(timers', op'.i) = {t}
             /\ t.dur = Millis(subs'[op'.i].expires)]_vars

\* C18: when the watchdog of a Subscription fires, a pending or terminated
\* Subscription ends closed (terminated, dialog not live, no timer, out of the
\* map) and sends nothing; an active one stays active, in the map, sends one
\* renewal SUBSCRIBE and has one new 64*T1 watchdog.
C18_TimerN ==
  [][(op'.name = "Subscription.timer_N")
     => IF subs[op'.i].state \in {"pending", "terminated"}
          THEN /\ subs'[op'.i].state = "terminated"
               /\ subs'[op'.i].dialog /= "live"
               /\ OwnedBy(timers', op'.i) = {}
               /\ op'.i \notin subscriptions'
               /\ sent' = sent
               /\ hist'.subTerminate[op'.i] = hist.subTerminate[op'.i] + 1
          ELSE /\ subs[op'.i].state = "active"
               /\ subs'[op'.i].state = "active"
               /\ subs'[op'.i].dialog = subs[op'.i].dialog
               /\ subscriptions' = subscriptions
               /\ Len(sent') = Len(sent) + 1
               /\ subs'[op'.i].renewTx = subs[op'.i].renewTx + 1
               /\ \E t \in timers' :
                    /\ OwnedBy(timers', op'.i) = {t}
                    /\ t.dur = T1x64
                    /\ t.h = subs'[op'.i].N]_vars

\* the watchdog of a pending Subscription fired while a sibling was in the map
C18_Witness ==
  /\ op.name = "Subscription.timer_N"
  /\ Has(trace, "dialog.terminate")
  /\ ~Has(trace, "send")
  /\ subscriptions /= {}
  /\ \E j \in subscriptions : subs[j].state = "active"

\* steps in which unsubscribe() ran on Subscription i
Unsubscribed(i) ==
  \/ op'.name = "Subscription.unsubscribe" /\ op'.i = i
  \/ hist'.closeUnsub[i] > hist.closeUnsub[i]

\* C19 (as claimed): when unsubscribe() returns, the dialog of the
\* Subscription has been terminated.
C19_DialogClosedAtOnce ==
  op.name = "Subscription.unsubscribe" => subs[op.i].dialog /= "live"

\* C19 (amended): unsubscribe() leaves the Subscription terminated, sends one
\* SUBSCRIBE, replaces the watchdog by one of 64*T1 and leaves the dialog and
\* the map entry as they were; the response to that SUBSCRIBE changes nothing.
C19_UnsubscribeKeepsDialog ==
  [][/\ \A i \in Slots :
          Unsubscribed(i)
          => /\ subs'[i].state = "terminated"
             /\ subs'[i].dialog = subs[i].dialog
             /\ (i \in subscriptions') <=> (i \in subscriptions)
             /\ subs'[i].unsubTx = subs[i].unsubTx + 1
             /\ \E t \in timers' :
                  /\ OwnedBy(timers', i) = {t}
                  /\ t.dur = T1x64
     /\ op'.name = "Subscription.unsubscribe" => Len(sent') = Len(sent) + 1
     /\ op'.name = "unsubscribe.receiveResponse"
          => /\ trace' = <<>>
             /\ UNCHANGED <<state, N, cseq, registered, subscriptions, timers,
                            txInit, sent, hist>>
             /\ \A i \in Slots :
                  [subs'[i] EXCEPT !.unsubTx = 0] = [subs[i] EXCEPT !.unsubTx = 0]]_vars

\* unsubscribe() returned on a Subscription whose dialog is still live
C19_Witness ==
  /\ op.name = "Subscription.unsubscribe"
  /\ subs[op.i].dialog = "live"
  /\ subs[op.i].state = "terminated"
  /\ op.i \in subscriptions

\* C20: a response to the initial SUBSCRIBE that finds the Subscriber
\* terminated arms no timer and changes no state; a renewal response that finds
\* the Subscription terminated arms no timer and calls onSubscriptionTerminate
\* no more.
C20_LateResponseIgnored ==
  [][/\ (op'.name = "Subscriber.receiveResponse" /\ state = "terminated")
          => /\ timers' = timers
             /\ UNCHANGED <<state, N, subscriptions, subs, registered>>
     /\ (op'.name = "Subscription.receiveResponse"
           /\ subs[op'.i].state = "terminated")
          => /\ OwnedBy(timers', op'.i) \subseteq OwnedBy(timers, op'.i)
             /\ hist'.subTerminate = hist.subTerminate]_vars

\* C21: terminated is terminal for a Subscription: from a state in which it is
\* terminated, no step leaves it pending or active and no step makes it send a
\* renewal SUBSCRIBE.
C21_TerminatedIsTerminal ==
  [][\A i \in Slots :
       subs[i].state = "terminated"
       => /\ subs'[i].state = "terminated"
          /\ subs'[i].renewTx <= subs[i].renewTx]_vars

\* a step in which Subscription i, pending or active and in the map, terminates:
\* NOTIFY terminated, expiry of the watchdog while pending, renewal error
Terminates(i) ==
  /\ op'.i = i
  /\ i \in subscriptions
  /\ subs[i].state \in {"pending", "active"}
  /\ \/ op'.name = "Subscription.receiveRequest" /\ Accepted(op'.req)
          /\ op'.req.ss = "terminated"
     \/ op'.name = "Subscription.timer_N" /\ subs[i].state = "pending"
     \/ op'.name = "Subscription.receiveResponse" /\ op'.rsp.status >= 300

\* C22: when one of two or more Subscriptions in the map terminates, every
\* other one keeps its state, expires, dialog and watchdog and stays in the map,
\* and the Subscriber is not terminated.
C22_SiblingsUnaffected ==
  [][\A i \in Slots :
       (Terminates(i) /\ Cardinality(subscriptions) >= 2)
       => /\ \A j \in subscriptions \ {i} :
               /\ subs'[j] = subs[j]
               /\ OwnedBy(timers', j) = OwnedBy(timers, j)
               /\ j \in subscriptions'
          /\ state' /= "terminated"]_vars

\* C23: while a Subscriber that is not terminated holds a Subscription, the
\* Subscriber's own watchdog is not armed.
C23_NoSubscriberWatchdog ==
  (state /= "terminated" /\ subscriptions /= {}) => Armed(SUBSCRIBER) = {}

\* close() ran on a Subscriber that held a Subscription; everything is released
ClosedWithChildren == \E i \in Slots : hist.closeUnsub[i] > 0
Released ==
  /\ subscriptions = {}
  /\ timers = {}
  /\ \A i \in Created : subs[i].dialog = "terminated"

\* C24: once Subscriber.close() has run on a Subscriber that held Subscriptions,
\* and armed timers fire, the system reaches and stays in a state where the map
\* is empty, the dialog of every Subscription is terminated and no watchdog is
\* armed, whatever responses and NOTIFYs arrive (the application's own calls
\* have come to an end).
C24_CloseReleasesAll ==
  <>[](op.name /= "api") => <>[](ClosedWithChildren => Released)

\* C25: once disconnect() was called the Transport constructs no WebSocket on
\* its own, and the close event of a connected Transport then emits
\* 'disconnected' without reConnect; a close event of a connected Transport that
\* the user did not ask for resets reconnection_attempts and calls reConnect;
\* reConnect connects, at once or by its timer, only while
\* reconnection_attempts <= ws_server_max_reconnection.
C25_NoReconnectAfterDisconnect ==
  [][/\ (disconnectCalled /\ top'.name /= "connect") => Len(socks') = Len(socks)
     /\ (top'.name = "onClose" /\ disconnectCalled /\ connected)
          => /\ ~Has(tlog', "reConnect")
             /\ Has(tlog', "emit:disconnected")
     /\ (top'.name = "onClose" /\ connected /\ ~closed)
          => /\ Has(tlog', "reset") /\ Has(tlog', "reConnect")
             /\ reconnection_attempts' = 1
     /\ Has(tlog', "reConnect")
          => ((Has(tlog', "connect") \/ Has(tlog', "setTimeout"))
                <=> reconnection_attempts'
                      <= configuration.ws_server_max_reconnection)
     /\ top'.name = "reconnectTimer"
          => reconnection_attempts <= configuration.ws_server_max_reconnection]_tvars

====
